---------------------------- MODULE Spec2Model ----------------------------
(***************************************************************************)
(* One segment of the commit log: a store file of length-prefixed frames,  *)
(* an index file of 12-byte entries that is memory-mapped while open, and  *)
(* the segment that binds them.  Files and buffers are byte sequences.     *)
(*                                                                         *)
(* Sizes, positions and offsets that the segment itself produces stay far  *)
(* below 2^31 within the bounds and are plain integers.  The offset passed *)
(* to segment.Read is a caller-chosen uint64 and is kept at its full width *)
(* as four 16-bit limbs (least significant first), so that the wrapping    *)
(* subtraction, the int64 conversion and the uint32 truncation on the read *)
(* path are computed exactly.                                              *)
(***************************************************************************)
EXTENDS Integers, Sequences, FiniteSets, TLC

\* ------------------------------------------------------------- bounds

\* Append calls in one behaviour.
MaxAppends == 3

\* newSegment calls after the first in one behaviour.
MaxReopens == 1

\* Failing system calls in one behaviour.
MaxFaults == 1

\* Capacity of the store's bufio.Writer in bytes (the library's default is
\* larger; this value makes flushes inside Append happen, between the
\* length prefix and the payload of a frame among them).
BufSize == 24

\* Threads that call one store concurrently.
NumThreads == 2

\* Calls the threads make on the store in one behaviour.
MaxCalls == 3

\* ---------------------------------------------------- program constants

lenWidth == 8

offWidth == 4

posWidth == 8

entryWidth == offWidth + posWidth

\* ------------------------------------------------------------- bytes

RECURSIVE BigEndian(_, _)
\* enc.PutUint32 / enc.PutUint64 / binary.Write of a uint64: v in n bytes.
BigEndian(v, n) ==
    IF n = 0 THEN <<>> ELSE BigEndian(v \div 256, n - 1) \o <<v % 256>>

RECURSIVE FromBigEndian(_)
\* enc.Uint32 / enc.Uint64.
FromBigEndian(bs) ==
    IF bs = <<>> THEN 0
    ELSE 256 * FromBigEndian(SubSeq(bs, 1, Len(bs) - 1)) + bs[Len(bs)]

\* A Go slice expression s[lo:hi] panics unless lo <= hi <= cap(s).
SliceOK(s, lo, hi) == lo <= hi /\ hi <= Len(s)

Slice(s, lo, hi) == SubSeq(s, lo + 1, hi)

Zeros(n) == [i \in 1..n |-> 0]

\* os.Truncate: cut the file, or extend it with zero bytes.
Truncate(data, n) ==
    IF n <= Len(data) THEN SubSeq(data, 1, n) ELSE data \o Zeros(n - Len(data))

\* ------------------------------------------------------ machine words

Limb == 2 ^ 16

\* uint64(n) for an integer 0 <= n < 2^31.
U64(n) == <<n % Limb, (n \div Limb) % Limb, 0, 0>>

\* uint32(n) for an integer 0 <= n < 2^31: n mod 2^32.
Uint32OfNat(n) == (n % Limb) + Limb * ((n \div Limb) % Limb)

RECURSIVE SubLimbs(_, _, _)
SubLimbs(a, b, borrow) ==
    IF a = <<>> THEN <<>>
    ELSE LET d == a[1] - b[1] - borrow
         IN  <<d % Limb>> \o SubLimbs(Tail(a), Tail(b), IF d < 0 THEN 1 ELSE 0)

\* a - b on uint64, wrapping.
Sub64(a, b) == SubLimbs(a, b, 0)

RECURSIVE AddLimbs(_, _, _)
AddLimbs(a, b, carry) ==
    IF a = <<>> THEN <<>>
    ELSE LET s == a[1] + b[1] + carry
         IN  <<s % Limb>> \o AddLimbs(Tail(a), Tail(b), s \div Limb)

\* a + b on uint64, wrapping.
Add64(a, b) == AddLimbs(a, b, 0)

\* int64(w) == -1
MinusOne64 == <<Limb - 1, Limb - 1, Limb - 1, Limb - 1>>

\* uint32(w) of a 64-bit word: its low 32 bits, as two limbs.
Uint32(w) == <<w[1], w[2]>>

\* uint32(n) - 1 on uint32, wrapping, for an integer 0 <= n < 2^31.
Uint32Pred(n) ==
    IF n = 0 THEN <<Limb - 1, Limb - 1>>
    ELSE <<(n - 1) % Limb, ((n - 1) \div Limb) % Limb>>

\* w >= n for a uint32 word w and an integer 0 <= n < 2^31.
GE32(w, n) ==
    \/ w[2] > n \div Limb
    \/ w[2] = n \div Limb /\ w[1] >= n % Limb

\* w < n for a uint64 word w and an integer 0 <= n < 2^31.
LT64(w, n) == w[3] = 0 /\ w[4] = 0 /\ ~GE32(Uint32(w), n)

\* The integer a uint32 word holds (used below 2^31 only).
NatOf32(w) == w[1] + Limb * w[2]


\* ------------------------------------------------------- record codec

RECURSIVE Varint(_)
\* Base-128 varint of the protobuf wire format.
Varint(n) ==
    IF n < 128 THEN <<n>> ELSE <<128 + (n % 128)>> \o Varint(n \div 128)

\* proto.Marshal of api.Record{Value, Offset}: field 1 (bytes) then field 2
\* (uint64); a field holding its zero value is left out.
Marshal(record) ==
    (IF record.Value = <<>> THEN <<>>
     ELSE <<10>> \o Varint(Len(record.Value)) \o record.Value)
    \o (IF record.Offset = 0 THEN <<>> ELSE <<16>> \o Varint(record.Offset))

RECURSIVE ReadVarint(_, _)
\* The varint starting at byte i (1-based) of bs: [ok, val, next].
ReadVarint(bs, i) ==
    IF i > Len(bs) THEN [ok |-> FALSE, val |-> 0, next |-> i]
    ELSE IF bs[i] < 128 THEN [ok |-> TRUE, val |-> bs[i], next |-> i + 1]
    ELSE LET r == ReadVarint(bs, i + 1)
         IN  [ok |-> r.ok, val |-> (bs[i] - 128) + 128 * r.val, next |-> r.next]

RECURSIVE UnmarshalFrom(_, _, _)
UnmarshalFrom(bs, i, record) ==
    IF i > Len(bs) THEN [ok |-> TRUE, record |-> record]
    ELSE LET v == ReadVarint(bs, i + 1)
         IN  IF ~v.ok THEN [ok |-> FALSE, record |-> record]
             ELSE IF bs[i] = 10
             THEN IF v.next + v.val - 1 > Len(bs)
                  THEN [ok |-> FALSE, record |-> record]
                  ELSE UnmarshalFrom(bs, v.next + v.val,
                         [record EXCEPT !.Value =
                             SubSeq(bs, v.next, v.next + v.val - 1)])
             ELSE IF bs[i] = 16
             THEN UnmarshalFrom(bs, v.next, [record EXCEPT !.Offset = v.val])
             ELSE [ok |-> FALSE, record |-> record]

\* proto.Unmarshal into a fresh api.Record: [ok, record].
Unmarshal(bs) == UnmarshalFrom(bs, 1, [Value |-> <<>>, Offset |-> 0])

\* ------------------------------------------------------- system calls
\* An operation is given io, the number of its system calls that succeed
\* before one fails; a negative io means none fails.

NoFault == 0 - 1

Fails(io) == io = 0

After(io) == IF io > 0 THEN io - 1 ELSE io

\* ------------------------------------------------------- bufio.Writer
\* w = [file, buf, err, io]: the file's bytes, the buffered bytes, the
\* writer's sticky error, and the system-call countdown.

\* bufio.Writer.Flush: one write of the whole buffer; a failed write
\* transfers nothing and leaves the error set.
Flush(w) ==
    IF w.err \/ w.buf = <<>> THEN w
    ELSE IF Fails(w.io) THEN [w EXCEPT !.err = TRUE, !.io = NoFault]
    ELSE [w EXCEPT !.file = w.file \o w.buf, !.buf = <<>>, !.io = After(w.io)]

RECURSIVE BufWrite(_, _, _)
\* bufio.Writer.Write(p): [w, nn], nn the bytes accepted; it failed when
\* w.err is set.
BufWrite(w, p, nn) ==
    IF Len(p) > BufSize - Len(w.buf) /\ ~w.err
    THEN IF w.buf = <<>>
         THEN \* large write, empty buffer: written to the file directly
              IF Fails(w.io)
              THEN BufWrite([w EXCEPT !.err = TRUE, !.io = NoFault], p, nn)
              ELSE BufWrite([w EXCEPT !.file = w.file \o p, !.io = After(w.io)],
                            <<>>, nn + Len(p))
         ELSE LET n == BufSize - Len(w.buf)
              IN  BufWrite(Flush([w EXCEPT !.buf = w.buf \o SubSeq(p, 1, n)]),
                           SubSeq(p, n + 1, Len(p)), nn + n)
    ELSE IF w.err THEN [w |-> w, nn |-> nn]
    ELSE [w |-> [w EXCEPT !.buf = w.buf \o p], nn |-> nn + Len(p)]

\* -------------------------------------------------------------- store
\* A store is [size, w]: store.size and the bufio.Writer over store.File.

\* newStore over a file holding `file`.
newStore(file) ==
    [size |-> Len(file),
     w |-> [file |-> file, buf |-> <<>>, err |-> FALSE, io |-> NoFault]]

\* A store.Append that leaves the length prefix out of the bytes it counts.
StoreAppend_NoPrefixCount(s, data) ==
    LET pos == s.size
        w1 == BufWrite(s.w, BigEndian(Len(data), lenWidth), 0)
        w2 == BufWrite(w1.w, data, 0)
        bytesWritten == w2.nn
    IN  IF w1.w.err
        THEN [store |-> [s EXCEPT !.w = w1.w], n |-> 0, pos |-> 0, err |-> TRUE]
        ELSE IF w2.w.err
        THEN [store |-> [s EXCEPT !.w = w2.w], n |-> 0, pos |-> 0, err |-> TRUE]
        ELSE [store |-> [size |-> s.size + bytesWritten, w |-> w2.w],
              n |-> bytesWritten, pos |-> pos, err |-> FALSE]

\* store.Append(data): [store, n, pos, err].
StoreAppend(s, data) ==
    LET pos == s.size
        w1 == BufWrite(s.w, BigEndian(Len(data), lenWidth), 0)
        w2 == BufWrite(w1.w, data, 0)
        bytesWritten == w2.nn + lenWidth
    IN  IF w1.w.err
        THEN [store |-> [s EXCEPT !.w = w1.w], n |-> 0, pos |-> 0, err |-> TRUE]
        ELSE IF w2.w.err
        THEN [store |-> [s EXCEPT !.w = w2.w], n |-> 0, pos |-> 0, err |-> TRUE]
        ELSE [store |-> [size |-> s.size + bytesWritten, w |-> w2.w],
              n |-> bytesWritten, pos |-> pos, err |-> FALSE]

\* os.File.ReadAt(b, off) with len(b) = n: the bytes, or EOF when fewer
\* than n bytes follow off (a read of no bytes succeeds anywhere).
FileReadAtOK(file, n, off) == n = 0 \/ off + n <= Len(file)

FileReadAt(file, n, off) == SubSeq(file, off + 1, off + n)

\* A store.Read that reads the file without flushing the buffer first.
StoreRead_NoFlush(s, pos) ==
    LET w == s.w
    IN  IF ~FileReadAtOK(w.file, lenWidth, pos)
        THEN [store |-> s, kind |-> "eof", data |-> <<>>]
        ELSE LET n == FromBigEndian(FileReadAt(w.file, lenWidth, pos))
             IN  IF ~FileReadAtOK(w.file, n, pos + lenWidth)
                 THEN [store |-> s, kind |-> "eof", data |-> <<>>]
                 ELSE [store |-> s, kind |-> "ok",
                       data |-> FileReadAt(w.file, n, pos + lenWidth)]

\* store.Read(pos): [store, kind, data], kind "ok", "ioerr" (the flush
\* failed) or "eof".
StoreRead(s, pos) ==
    LET w == Flush(s.w)
        s1 == [s EXCEPT !.w = w]
    IN  IF w.err THEN [store |-> s1, kind |-> "ioerr", data |-> <<>>]
        ELSE IF ~FileReadAtOK(w.file, lenWidth, pos)
        THEN [store |-> s1, kind |-> "eof", data |-> <<>>]
        ELSE LET n == FromBigEndian(FileReadAt(w.file, lenWidth, pos))
             IN  IF ~FileReadAtOK(w.file, n, pos + lenWidth)
                 THEN [store |-> s1, kind |-> "eof", data |-> <<>>]
                 ELSE [store |-> s1, kind |-> "ok",
                       data |-> FileReadAt(w.file, n, pos + lenWidth)]

\* store.ReadAt(b, off) with len(b) = n: [store, kind, data]; at the end
\* of the file it returns the bytes there are with io.EOF.
StoreReadAt(s, n, off) ==
    LET w == Flush(s.w)
        s1 == [s EXCEPT !.w = w]
    IN  IF w.err THEN [store |-> s1, kind |-> "ioerr", data |-> <<>>]
        ELSE IF FileReadAtOK(w.file, n, off)
        THEN [store |-> s1, kind |-> "ok", data |-> FileReadAt(w.file, n, off)]
        ELSE [store |-> s1, kind |-> "eof",
              data |-> IF off < Len(w.file)
                       THEN SubSeq(w.file, off + 1, Len(w.file)) ELSE <<>>]

\* A store.Close that closes the file without flushing the buffer.
StoreClose_NoFlush(s) ==
    IF Fails(s.w.io)
    THEN [store |-> [s EXCEPT !.w.io = NoFault], err |-> TRUE]
    ELSE [store |-> [s EXCEPT !.w.io = After(s.w.io)], err |-> FALSE]

\* store.Close: flush, then close the file: [store, err].
StoreClose(s) ==
    LET w == Flush(s.w)
    IN  IF w.err THEN [store |-> [s EXCEPT !.w = w], err |-> TRUE]
        ELSE IF Fails(w.io)
        THEN [store |-> [s EXCEPT !.w = [w EXCEPT !.io = NoFault]], err |-> TRUE]
        ELSE [store |-> [s EXCEPT !.w = [w EXCEPT !.io = After(w.io)]],
              err |-> FALSE]

\* -------------------------------------------------------------- index
\* An index is [size, mmap]: index.size and the mapped bytes.  The mapping
\* is MAP_SHARED and covers the whole file, so the mapped bytes are the
\* index file's bytes.

\* newIndex over a file holding `file`: size from the file's length, then
\* the file truncated (grown or cut) to MaxIndexBytes and mapped.
newIndex(file, c) ==
    [size |-> Len(file), mmap |-> Truncate(file, c.MaxIndexBytes)]

\* index.Read(offsetGiven), offsetGiven an int64 word:
\* [kind, off, pos], kind "ok", "eof" or "panic".
IndexRead(idx, offsetGiven) ==
    IF idx.size = 0 THEN [kind |-> "eof", off |-> 0, pos |-> 0]
    ELSE LET offsetUsed ==
                 IF offsetGiven = MinusOne64
                 THEN Uint32Pred(Uint32OfNat(idx.size) \div entryWidth)
                 ELSE Uint32(offsetGiven)
         IN  \* (uint64(offsetUsed)*entryWidth)+entryWidth > idx.size cannot
             \* wrap in 64 bits and is offsetUsed >= idx.size / entryWidth
             IF GE32(offsetUsed, idx.size \div entryWidth)
             THEN [kind |-> "eof", off |-> 0, pos |-> 0]
             ELSE LET entryStart == NatOf32(offsetUsed) * entryWidth
                  IN  \* idx.mmap[entryStart:offWidth], of which enc.Uint32
                      \* reads four bytes, and
                      \* idx.mmap[entryStart+offWidth : entryStart+entryWidth]
                      IF \/ ~SliceOK(idx.mmap, entryStart, offWidth)
                         \/ offWidth - entryStart < 4
                         \/ ~SliceOK(idx.mmap, entryStart + offWidth,
                                     entryStart + entryWidth)
                      THEN [kind |-> "panic", off |-> 0, pos |-> 0]
                      ELSE [kind |-> "ok",
                            off |-> FromBigEndian(
                                      Slice(idx.mmap, entryStart, offWidth)),
                            pos |-> FromBigEndian(
                                      Slice(idx.mmap, entryStart + offWidth,
                                            entryStart + entryWidth))]

\* index.Write(offset, storePosition): [index, err]; err is io.EOF.
IndexWrite(idx, offset, storePosition) ==
    IF Len(idx.mmap) < idx.size + entryWidth
    THEN [index |-> idx, err |-> TRUE]
    ELSE [index |->
            [size |-> idx.size + entryWidth,
             mmap |-> [i \in 1..Len(idx.mmap) |->
                         IF i > idx.size /\ i <= idx.size + offWidth
                         THEN BigEndian(offset, offWidth)[i - idx.size]
                         ELSE IF i > idx.size + offWidth
                                 /\ i <= idx.size + entryWidth
                         THEN BigEndian(storePosition, posWidth)
                                  [i - idx.size - offWidth]
                         ELSE idx.mmap[i]]],
          err |-> FALSE]


\* An index.Close that goes on to truncate and close the file after the
\* file's sync has failed, and returns the sync's error.
IndexClose_TruncatesAfterFailedSync(idx, io) ==
    LET cut == [idx EXCEPT !.mmap = Truncate(idx.mmap, idx.size)]
    IN  IF Fails(io)
        THEN [index |-> idx, err |-> TRUE, io |-> NoFault, steps |-> 1]
        ELSE IF Fails(After(io))
        THEN [index |-> cut, err |-> TRUE, io |-> NoFault, steps |-> 4]
        ELSE IF Fails(After(After(io)))
        THEN [index |-> idx, err |-> TRUE, io |-> NoFault, steps |-> 3]
        ELSE IF Fails(After(After(After(io))))
        THEN [index |-> cut, err |-> TRUE, io |-> NoFault, steps |-> 4]
        ELSE [index |-> cut, err |-> FALSE,
              io |-> After(After(After(After(io)))), steps |-> 4]

\* index.Close: msync, fsync, truncate the file to size, close the file;
\* the first failing step ends it: [index, err, io, steps], steps the
\* number of steps made, the failing one included.
IndexClose(idx, io) ==
    LET cut == [idx EXCEPT !.mmap = Truncate(idx.mmap, idx.size)]
    IN  IF Fails(io)                          \* idx.mmap.Sync
        THEN [index |-> idx, err |-> TRUE, io |-> NoFault, steps |-> 1]
        ELSE IF Fails(After(io))              \* idx.file.Sync
        THEN [index |-> idx, err |-> TRUE, io |-> NoFault, steps |-> 2]
        ELSE IF Fails(After(After(io)))       \* idx.file.Truncate
        THEN [index |-> idx, err |-> TRUE, io |-> NoFault, steps |-> 3]
        ELSE IF Fails(After(After(After(io))))  \* idx.file.Close
        THEN [index |-> cut, err |-> TRUE, io |-> NoFault, steps |-> 4]
        ELSE [index |-> cut, err |-> FALSE,
              io |-> After(After(After(After(io)))), steps |-> 4]

\* ------------------------------------------------------------ segment
\* A segment is [store, index, baseOffset, nextOffset, config].

\* newSegment over the two files' bytes (empty when just created):
\* [seg, kind], kind "ok" or "panic".
newSegment(storeFile, indexFile, baseOffset, c) ==
    LET st == newStore(storeFile)
        idx == newIndex(indexFile, c)
        r == IndexRead(idx, MinusOne64)
    IN  [seg |-> [store |-> st, index |-> idx, baseOffset |-> baseOffset,
                  nextOffset |-> IF r.kind = "ok"
                                 THEN baseOffset + r.off + 1
                                 ELSE baseOffset,
                  config |-> c],
         kind |-> IF r.kind = "panic" THEN "panic" ELSE "ok"]

\* The store with the system-call countdown of the call set.
WithIO(st, io) == [st EXCEPT !.w.io = io]

\* A segment.Append that returns nextOffset as it is after the increment.
SegmentAppend_ReturnsNext(s, value, io) ==
    LET recordOffset == s.nextOffset
        p == Marshal([Value |-> value, Offset |-> recordOffset])
        stored == StoreAppend(WithIO(s.store, io), p)
        wr == IndexWrite(s.index,
                         Uint32OfNat(s.nextOffset - s.baseOffset), stored.pos)
        s1 == [s EXCEPT !.store = stored.store]
    IN  IF wr.err
        THEN [seg |-> s1, offset |-> 0, err |-> TRUE, stored |-> stored,
              io |-> stored.store.w.io]
        ELSE [seg |-> [s1 EXCEPT !.index = wr.index,
                                 !.nextOffset = s.nextOffset + 1],
              offset |-> s.nextOffset + 1, err |-> FALSE, stored |-> stored,
              io |-> stored.store.w.io]

\* A segment.Append that takes the frame back out of the store when the
\* index write fails.
SegmentAppend_Rollback(s, value, io) ==
    LET recordOffset == s.nextOffset
        p == Marshal([Value |-> value, Offset |-> recordOffset])
        stored == StoreAppend(WithIO(s.store, io), p)
        wr == IndexWrite(s.index,
                         Uint32OfNat(s.nextOffset - s.baseOffset), stored.pos)
        s1 == [s EXCEPT !.store = stored.store]
    IN  IF wr.err
        THEN [seg |-> s, offset |-> 0, err |-> TRUE, stored |-> stored,
              io |-> stored.store.w.io]
        ELSE [seg |-> [s1 EXCEPT !.index = wr.index,
                                 !.nextOffset = s.nextOffset + 1],
              offset |-> recordOffset, err |-> FALSE, stored |-> stored,
              io |-> stored.store.w.io]

\* segment.Append(record): [seg, offset, err, stored, io], stored the
\* result of the store.Append it made.
SegmentAppend(s, value, io) ==
    LET recordOffset == s.nextOffset
        p == Marshal([Value |-> value, Offset |-> recordOffset])
        stored == StoreAppend(WithIO(s.store, io), p)
        wr == IndexWrite(s.index,
                         Uint32OfNat(s.nextOffset - s.baseOffset), stored.pos)
        s1 == [s EXCEPT !.store = stored.store]
    IN  IF wr.err
        THEN [seg |-> s1, offset |-> 0, err |-> TRUE, stored |-> stored,
              io |-> stored.store.w.io]
        ELSE [seg |-> [s1 EXCEPT !.index = wr.index,
                                 !.nextOffset = s.nextOffset + 1],
              offset |-> recordOffset, err |-> FALSE, stored |-> stored,
              io |-> stored.store.w.io]

\* segment.Read(offset), offset a uint64 word: [seg, kind, record, io],
\* kind "ok", "eof", "ioerr", "malformed" or "panic".
SegmentRead(s, offset, io) ==
    LET none == [Value |-> <<>>, Offset |-> 0]
        e == IndexRead(s.index, Sub64(offset, U64(s.baseOffset)))
    IN  IF e.kind # "ok"
        THEN [seg |-> s, kind |-> e.kind, record |-> none, io |-> io]
        ELSE LET entry == StoreRead(WithIO(s.store, io), e.pos)
                 s1 == [s EXCEPT !.store = entry.store]
             IN  IF entry.kind # "ok"
                 THEN [seg |-> s1, kind |-> entry.kind, record |-> none,
                       io |-> entry.store.w.io]
                 ELSE LET u == Unmarshal(entry.data)
                      IN  [seg |-> s1,
                           kind |-> IF u.ok THEN "ok" ELSE "malformed",
                           record |-> u.record, io |-> entry.store.w.io]

\* An IsMaxed whose comparisons are strict.
IsMaxed_Strict(s) ==
    \/ s.store.size > s.config.MaxStoreBytes
    \/ s.index.size > s.config.MaxIndexBytes

\* segment.IsMaxed.
IsMaxed(s) ==
    \/ s.store.size >= s.config.MaxStoreBytes
    \/ s.index.size >= s.config.MaxIndexBytes

\* segment.Close: [seg, err, indexErr, storeClosed, io].
SegmentClose(s, io) ==
    LET ic == IndexClose(s.index, io)
        s1 == [s EXCEPT !.index = ic.index]
        sc == StoreClose(WithIO(s.store, ic.io))
    IN  IF ic.err
        THEN [seg |-> s1, err |-> TRUE, indexErr |-> TRUE,
              storeClosed |-> FALSE, io |-> NoFault]
        ELSE [seg |-> [s1 EXCEPT !.store = sc.store], err |-> sc.err,
              indexErr |-> FALSE, storeClosed |-> ~sc.err,
              io |-> sc.store.w.io]

\* A segment.Remove that deletes the store file only.
SegmentRemove_KeepsIndex(s, io) ==
    LET c == SegmentClose(s, io)
    IN  IF c.err
        THEN [seg |-> c.seg, err |-> TRUE, indexGone |-> FALSE,
              storeGone |-> FALSE, io |-> c.io]
        ELSE IF Fails(c.io)
        THEN [seg |-> c.seg, err |-> TRUE, indexGone |-> FALSE,
              storeGone |-> FALSE, io |-> NoFault]
        ELSE [seg |-> c.seg, err |-> FALSE, indexGone |-> FALSE,
              storeGone |-> TRUE, io |-> After(c.io)]

\* segment.Remove: Close, os.Remove of the index file, os.Remove of the
\* store file: [seg, err, indexGone, storeGone, io].
SegmentRemove(s, io) ==
    LET c == SegmentClose(s, io)
    IN  IF c.err
        THEN [seg |-> c.seg, err |-> TRUE, indexGone |-> FALSE,
              storeGone |-> FALSE, io |-> c.io]
        ELSE IF Fails(c.io)
        THEN [seg |-> c.seg, err |-> TRUE, indexGone |-> FALSE,
              storeGone |-> FALSE, io |-> NoFault]
        ELSE IF Fails(After(c.io))
        THEN [seg |-> c.seg, err |-> TRUE, indexGone |-> TRUE,
              storeGone |-> FALSE, io |-> NoFault]
        ELSE [seg |-> c.seg, err |-> FALSE, indexGone |-> TRUE,
              storeGone |-> TRUE, io |-> After(After(c.io))]


\* --------------------------------------------------------------- state

\* Record payloads the callers append.
Values == {<<7>>, <<8, 9>>}

\* Base offsets of the segment.
BaseOffsets == {16}

\* Configurations, Segment.MaxStoreBytes and Segment.MaxIndexBytes: room
\* for three index entries with a store limit that is not reached, room
\* for one entry, room for two and a half entries with a store limit
\* that the second frame reaches, and room for one and a half entries
\* with a store limit that is not reached.
Configs ==
    {[MaxStoreBytes |-> 1024, MaxIndexBytes |-> 3 * entryWidth],
     [MaxStoreBytes |-> 1024, MaxIndexBytes |-> entryWidth],
     [MaxStoreBytes |-> 20, MaxIndexBytes |-> 2 * entryWidth + 6],
     [MaxStoreBytes |-> 1024, MaxIndexBytes |-> entryWidth + 6]}

\* Distances from baseOffset of the offsets the callers read: -1, the
\* first entries and 2^32 (added to baseOffset with wrap-around).
ReadDistances ==
    {MinusOne64, <<0, 0, 1, 0>>} \cup {U64(d) : d \in 0..(MaxAppends - 1)}

VARIABLES
    s,         \* the segment; s.store.w.file and s.index.mmap are the bytes
               \* of the two files, which outlive the segment object
    status,    \* "open"; "closed" / "removed" after a successful Close /
               \* Remove; "failed" after a failed one; "crashed" after a panic
    exists,    \* [store, index]: whether each file is in the directory
    last,      \* the last call and its outcome
    log,       \* [offset, value] of each successful Append of this segment
               \* object, in order
    frames,    \* [pos, n, data] of each successful store.Append of this
               \* store object, in order
    born,      \* how this segment object was made: [from, size0, prev],
               \* from the status before newSegment ("none" at first),
               \* size0 the store's size as newStore set it, prev the
               \* nextOffset, log, frames and store size the previous
               \* object had when it was closed or removed
    nAppends,  \* Append calls so far
    nReopens,  \* newSegment calls after the first
    nFaults,   \* failed system calls so far
    written,   \* entries index.Write has put in the index file since the
               \* file was created
    mu,        \* store.mu: the thread that holds it, 0 when unlocked
    pc,        \* per thread, the store call it is in and where in it
    nCalls     \* store calls the threads have started

vars ==
    <<s, status, exists, last, log, frames, born, nAppends, nReopens, nFaults,
      written, mu, pc, nCalls>>

\* The threads that share the store.
Threads == 1..NumThreads

\* A thread that is in no store call.
Idle == [at |-> "idle"]

\* What the calls on the segment made from one thread leave alone.
threadVars == <<mu, pc, nCalls>>

\* The countdowns a call that makes up to n system calls may be given: no
\* failure, or (while the budget lasts) failure of its k+1-th system call.
IOChoices(n) ==
    IF nFaults < MaxFaults THEN {NoFault} \cup (0..(n - 1)) ELSE {NoFault}

\* The failure asked for happened.
Fired(ioIn, ioOut) == ioIn # NoFault /\ ioOut = NoFault

Settled(seg) == [seg EXCEPT !.store.w.io = NoFault]

NoPrev == [nextOffset |-> 0, log |-> <<>>, frames |-> <<>>, size |-> 0]

\* The directory is empty and newSegment(dir, baseOffset, c) has returned.
Init ==
    \E b \in BaseOffsets, c \in Configs :
        /\ s = newSegment(<<>>, <<>>, b, c).seg
        /\ status = "open"
        /\ exists = [store |-> TRUE, index |-> TRUE]
        /\ last = [op |-> "newSegment", kind |-> "ok"]
        /\ log = <<>>
        /\ frames = <<>>
        /\ born = [from |-> "none", size0 |-> 0, prev |-> NoPrev]
        /\ nAppends = 0
        /\ nReopens = 0
        /\ nFaults = 0
        /\ written = 0
        /\ mu = 0
        /\ pc = [t \in Threads |-> Idle]
        /\ nCalls = 0

\* newSegment(dir, baseOffset, c) for the same directory, base offset and
\* configuration, whatever became of the previous segment object: what
\* that object had buffered and not flushed is lost.
CallNewSegment ==
    /\ nReopens < MaxReopens
    /\ LET r == newSegment(IF exists.store THEN s.store.w.file ELSE <<>>,
                           IF exists.index THEN s.index.mmap ELSE <<>>,
                           s.baseOffset, s.config)
       IN  /\ s' = r.seg
           /\ status' = IF r.kind = "panic" THEN "crashed" ELSE "open"
           /\ last' = [op |-> "newSegment", kind |-> r.kind]
           /\ born' = [from |-> status, size0 |-> r.seg.store.size,
                prev |-> IF status \in {"closed", "removed"}
                         THEN [nextOffset |-> s.nextOffset, log |-> log,
                               frames |-> frames, size |-> s.store.size]
                         ELSE NoPrev]
    /\ exists' = [store |-> TRUE, index |-> TRUE]
    /\ log' = <<>>
    /\ frames' = <<>>
    /\ nReopens' = nReopens + 1
    /\ written' = IF exists.index THEN written ELSE 0
    /\ UNCHANGED <<nAppends, nFaults>>
    /\ UNCHANGED threadVars

\* s.Append(&api.Record{Value: value}).
CallAppend(value, io) ==
    /\ status = "open"
    /\ nAppends < MaxAppends
    /\ LET r == SegmentAppend(s, value, io)
       IN  /\ io = NoFault \/ Fired(io, r.io)
           /\ s' = Settled(r.seg)
           /\ last' = [op |-> "Append", value |-> value, err |-> r.err,
                       offset |-> r.offset, stored |-> r.stored,
                       data |-> Marshal([Value |-> value,
                                         Offset |-> s.nextOffset]),
                       before |-> s]
           /\ log' = IF r.err THEN log
                     ELSE Append(log, [offset |-> r.offset, value |-> value])
           /\ frames' = IF r.stored.err THEN frames
                        ELSE Append(frames,
                                    [pos |-> r.stored.pos, n |-> r.stored.n,
                                     data |-> Marshal([Value |-> value,
                                                 Offset |-> s.nextOffset])])
           /\ nFaults' = IF Fired(io, r.io) THEN nFaults + 1 ELSE nFaults
           /\ written' = IF r.err THEN written ELSE written + 1
    /\ nAppends' = nAppends + 1
    /\ UNCHANGED <<status, exists, born, nReopens>>
    /\ UNCHANGED threadVars


\* s.Read(offset) for the offset at distance d from the base offset.
CallRead(d, io) ==
    /\ status = "open"
    /\ LET offset == Add64(U64(s.baseOffset), d)
           r == SegmentRead(s, offset, io)
       IN  /\ io = NoFault \/ Fired(io, r.io)
           /\ s' = Settled(r.seg)
           /\ status' = IF r.kind = "panic" THEN "crashed" ELSE "open"
           /\ last' = [op |-> "Read", kind |-> r.kind]
           /\ nFaults' = IF Fired(io, r.io) THEN nFaults + 1 ELSE nFaults
    /\ UNCHANGED <<exists, log, frames, born, nAppends, nReopens, written>>
    /\ UNCHANGED threadVars

\* s.store.Read(pos), as the store's own callers make it, at the start of
\* a frame or at the end of the data.
CallStoreRead(pos, io) ==
    /\ status = "open"
    /\ LET r == StoreRead(WithIO(s.store, io), pos)
       IN  /\ io = NoFault \/ Fired(io, r.store.w.io)
           /\ s' = Settled([s EXCEPT !.store = r.store])
           /\ last' = [op |-> "StoreRead", kind |-> r.kind,
                       buffered |-> pos >= Len(s.store.w.file)]
           /\ nFaults' = IF Fired(io, r.store.w.io)
                         THEN nFaults + 1 ELSE nFaults
    /\ UNCHANGED <<status, exists, log, frames, born, nAppends, nReopens,
                   written>>
    /\ UNCHANGED threadVars

\* s.Close().
CallClose(io) ==
    /\ status = "open"
    /\ LET r == SegmentClose(s, io)
       IN  /\ io = NoFault \/ Fired(io, r.io)
           /\ s' = Settled(r.seg)
           /\ status' = IF r.err THEN "failed" ELSE "closed"
           /\ last' = [op |-> "Close", err |-> r.err, indexErr |-> r.indexErr,
                       storeClosed |-> r.storeClosed, before |-> s]
           /\ nFaults' = IF Fired(io, r.io) THEN nFaults + 1 ELSE nFaults
    /\ UNCHANGED <<exists, log, frames, born, nAppends, nReopens, written>>
    /\ UNCHANGED threadVars

\* s.Remove().
CallRemove(io) ==
    /\ status = "open"
    /\ LET r == SegmentRemove(s, io)
       IN  /\ io = NoFault \/ Fired(io, r.io)
           /\ s' = Settled(r.seg)
           /\ status' = IF r.err THEN "failed" ELSE "removed"
           /\ exists' = [store |-> ~r.storeGone, index |-> ~r.indexGone]
           /\ last' = [op |-> "Remove", err |-> r.err]
           /\ nFaults' = IF Fired(io, r.io) THEN nFaults + 1 ELSE nFaults
    /\ UNCHANGED <<log, frames, born, nAppends, nReopens, written>>
    /\ UNCHANGED threadVars

\* The segment object was made over an empty directory.
Fresh == born.from \in {"none", "removed"}

\* The offsets the callers read.
ReadOffsets == {Add64(U64(s.baseOffset), d) : d \in ReadDistances}

\* baseOffset <= o < nextOffset for a uint64 word o.
InRange(o) == ~LT64(o, s.baseOffset) /\ LT64(o, s.nextOffset)

Next ==
    \/ CallNewSegment
    \/ \E value \in Values, io \in IOChoices(2) : CallAppend(value, io)
    \/ \E d \in ReadDistances, io \in IOChoices(1) : CallRead(d, io)
    \/ \E pos \in {frames[i].pos : i \in 1..Len(frames)} \cup {s.store.size},
          io \in IOChoices(1) : CallStoreRead(pos, io)
    \/ \E io \in IOChoices(6) : CallClose(io)
    \/ \E io \in IOChoices(8) : CallRemove(io)

Spec == Init /\ [][Next]_vars


\* ------------------------------------------- one store, several threads
\* Every method of the store locks s.mu on entry and unlocks it on return
\* (defer).  Each thread is in at most one call; pc[t] is Idle or
\* [at, op, arg, before, wasClosed, pos, result]: at is "lock" (waiting for
\* the mutex), "locked", "payload", "file" (places inside the call) or
\* "unlock" (about to return result); before and wasClosed are the store
\* and whether its file was closed when the mutex was taken.

\* A mutex that anyone may take at any time.
CanLock_Always(m) == TRUE

\* sync.Mutex.Lock returns when the mutex is unlocked.
CanLock(m) == m = 0

\* What a call returns: kind "ok", "eof" or "ioerr", the bytes read, and
\* the byte count and position of an Append.
Result(kind, data, n, pos) ==
    [kind |-> kind, data |-> data, n |-> n, pos |-> pos]

IOError == Result("ioerr", <<>>, 0, 0)

\* The countdown of the system calls on the store's file: they all fail
\* once the file is closed.
FileIO(closed) == IF closed THEN 0 ELSE NoFault

\* The positions the threads read at: the start of each frame appended and
\* the end of the data.
ReadPositions == {frames[i].pos : i \in 1..Len(frames)} \cup {s.store.size}

\* What the threads' steps leave alone.
segmentVars == <<exists, last, log, born, nAppends, nReopens, nFaults, written>>

\* Thread t calls s.Append(arg), s.Read(arg), s.ReadAt(b, arg) with
\* len(b) = lenWidth, or s.Close().
StartCall(t, op, arg) ==
    /\ pc[t] = Idle
    /\ nCalls < MaxCalls
    /\ pc' = [pc EXCEPT ![t] = [at |-> "lock", op |-> op, arg |-> arg,
                                before |-> s.store, wasClosed |-> FALSE,
                                pos |-> 0, result |-> IOError]]
    /\ nCalls' = nCalls + 1
    /\ UNCHANGED <<s, status, frames, mu>>
    /\ UNCHANGED segmentVars

\* s.mu.Lock().
Lock(t) ==
    /\ pc[t].at = "lock"
    /\ CanLock(mu)
    /\ mu' = t
    /\ pc' = [pc EXCEPT ![t].at = "locked", ![t].before = s.store,
                        ![t].wasClosed = (status = "closed")]
    /\ UNCHANGED <<s, status, frames, nCalls>>
    /\ UNCHANGED segmentVars

\* store.Append: pos := s.size and binary.Write of the length.
AppendPrefix(t) ==
    /\ pc[t].at = "locked" /\ pc[t].op = "Append"
    /\ LET w1 == BufWrite(WithIO(s.store, FileIO(status = "closed")).w,
                          BigEndian(Len(pc[t].arg), lenWidth), 0)
       IN  /\ s' = Settled([s EXCEPT !.store.w = w1.w])
           /\ pc' = IF w1.w.err
                    THEN [pc EXCEPT ![t].at = "unlock", ![t].result = IOError]
                    ELSE [pc EXCEPT ![t].at = "payload",
                                    ![t].pos = s.store.size]
    /\ UNCHANGED <<status, frames, mu, nCalls>>
    /\ UNCHANGED segmentVars

\* store.Append: s.buf.Write(data), s.size += bytesWritten.
AppendPayload(t) ==
    /\ pc[t].at = "payload"
    /\ LET w2 == BufWrite(WithIO(s.store, FileIO(status = "closed")).w,
                          pc[t].arg, 0)
           bytesWritten == w2.nn + lenWidth
       IN  IF w2.w.err
           THEN /\ s' = Settled([s EXCEPT !.store.w = w2.w])
                /\ pc' = [pc EXCEPT ![t].at = "unlock", ![t].result = IOError]
                /\ frames' = frames
           ELSE /\ s' = Settled([s EXCEPT !.store.w = w2.w,
                                          !.store.size = @ + bytesWritten])
                /\ pc' = [pc EXCEPT ![t].at = "unlock",
                                    ![t].result = Result("ok", <<>>,
                                                    bytesWritten, pc[t].pos)]
                /\ frames' = Append(frames,
                                    [pos |-> pc[t].pos, n |-> bytesWritten,
                                     data |-> pc[t].arg])
    /\ UNCHANGED <<status, mu, nCalls>>
    /\ UNCHANGED segmentVars

\* store.Read, store.ReadAt, store.Close: s.buf.Flush().
FlushBuf(t) ==
    /\ pc[t].at = "locked" /\ pc[t].op \in {"Read", "ReadAt", "Close"}
    /\ LET w == Flush(WithIO(s.store, FileIO(status = "closed")).w)
       IN  /\ s' = Settled([s EXCEPT !.store.w = w])
           /\ pc' = IF w.err
                    THEN [pc EXCEPT ![t].at = "unlock", ![t].result = IOError]
                    ELSE [pc EXCEPT ![t].at = "file"]
    /\ UNCHANGED <<status, frames, mu, nCalls>>
    /\ UNCHANGED segmentVars

\* store.Read, store.ReadAt: the reads of s.File; store.Close: the close
\* of s.File.
UseFile(t) ==
    /\ pc[t].at = "file"
    /\ IF status = "closed"
       THEN /\ pc' = [pc EXCEPT ![t].at = "unlock", ![t].result = IOError]
            /\ status' = status
       ELSE IF pc[t].op = "Close"
       THEN /\ pc' = [pc EXCEPT ![t].at = "unlock",
                                ![t].result = Result("ok", <<>>, 0, 0)]
            /\ status' = "closed"
       ELSE LET r == IF pc[t].op = "Read"
                     THEN StoreRead(s.store, pc[t].arg)
                     ELSE StoreReadAt(s.store, lenWidth, pc[t].arg)
            IN  /\ pc' = [pc EXCEPT ![t].at = "unlock",
                                    ![t].result = Result(r.kind, r.data, 0, 0)]
                /\ status' = status
    /\ UNCHANGED <<s, frames, mu, nCalls>>
    /\ UNCHANGED segmentVars

\* The deferred s.mu.Unlock(), and the return.
Unlock(t) ==
    /\ pc[t].at = "unlock"
    /\ mu' = 0
    /\ pc' = [pc EXCEPT ![t] = Idle]
    /\ UNCHANGED <<s, status, frames, nCalls>>
    /\ UNCHANGED segmentVars

\* One store, just made over an empty file.
InitStore == Init /\ s.config.MaxIndexBytes = entryWidth

NextStore ==
    \E t \in Threads :
        \/ \E value \in Values : StartCall(t, "Append", value)
        \/ \E pos \in ReadPositions : StartCall(t, "Read", pos)
        \/ \E pos \in ReadPositions : StartCall(t, "ReadAt", pos)
        \/ StartCall(t, "Close", 0)
        \/ Lock(t)
        \/ AppendPrefix(t)
        \/ AppendPayload(t)
        \/ FlushBuf(t)
        \/ UseFile(t)
        \/ Unlock(t)

SpecStore == InitStore /\ [][NextStore]_vars

\* -------------------------------------------------------------- claims

\* What s.Read(o) returns in the current state when no system call fails.
ReadNow(o) == SegmentRead(s, o, NoFault)

\* The bytes of a frame holding data.
Frame(data) == BigEndian(Len(data), lenWidth) \o data

\* C1: round trip.  On a segment made over an empty directory, with no
\* failed system call, every offset an Append has returned reads back
\* successfully with the payload that Append was given.
C1_RoundTrip ==
    (status = "open" /\ Fresh /\ nFaults = 0) =>
        \A i \in 1..Len(log) :
            /\ ReadNow(U64(log[i].offset)).kind = "ok"
            /\ ReadNow(U64(log[i].offset)).record.Value = log[i].value

\* C2: offset monotonicity.  On a segment made over an empty directory
\* the n-th successful Append returned baseOffset + (n-1), nextOffset is
\* baseOffset plus the number of successful Appends, and no Append has
\* lowered nextOffset.
C2_OffsetMonotonic ==
    Fresh =>
        /\ \A i \in 1..Len(log) : log[i].offset = s.baseOffset + (i - 1)
        /\ s.nextOffset = s.baseOffset + Len(log)
        /\ last.op = "Append" =>
              /\ s.nextOffset >= last.before.nextOffset
              /\ ~last.err => last.offset = last.before.nextOffset

\* C2 witness: the third successful Append of a fresh segment has returned.
C2_Witness ==
    Fresh /\ last.op = "Append" /\ ~last.err /\ Len(log) = 3

\* C3: out-of-range read.  Every offset below baseOffset or at or beyond
\* nextOffset, as a 64-bit value, reads as EOF.
C3_OutOfRangeEOF ==
    status = "open" =>
        \A o \in ReadOffsets : ~InRange(o) => ReadNow(o).kind = "eof"

\* C4: resume.  newSegment after a successful Close returns a segment with
\* the nextOffset the closed one had, on which every offset the closed one
\* had appended reads back with its payload.
C4_Resume ==
    (born.from = "closed" /\ last.op = "newSegment") =>
        /\ status = "open"
        /\ s.nextOffset = born.prev.nextOffset
        /\ \A i \in 1..Len(born.prev.log) :
              /\ ReadNow(U64(born.prev.log[i].offset)).kind = "ok"
              /\ ReadNow(U64(born.prev.log[i].offset)).record.Value
                    = born.prev.log[i].value

RECURSIVE FramesBytes(_)
\* The bytes of the frames fs.
FramesBytes(fs) ==
    IF fs = <<>> THEN 0 ELSE fs[1].n + FramesBytes(Tail(fs))

\* C5: IsMaxed thresholds.  On a segment made over an empty directory
\* IsMaxed is true exactly when the frames stored come to MaxStoreBytes or
\* more, or entryWidth times the entries written comes to MaxIndexBytes or
\* more; so with MaxIndexBytes = 3 * entryWidth and MaxStoreBytes not
\* reached it is false until the third successful Append and true from it.
C5_IsMaxedThresholds ==
    (status = "open" /\ Fresh) =>
        /\ IsMaxed(s) <=>
              \/ FramesBytes(frames) >= s.config.MaxStoreBytes
              \/ entryWidth * Len(log) >= s.config.MaxIndexBytes
        /\ (/\ s.config.MaxIndexBytes = 3 * entryWidth
            /\ s.store.size < s.config.MaxStoreBytes)
              => (IsMaxed(s) <=> Len(log) >= 3)

\* C5 witness: the third Append has made a segment with room for three
\* index entries maxed, its store limit not reached.
C5_Witness ==
    /\ status = "open" /\ Fresh
    /\ s.config.MaxIndexBytes = 3 * entryWidth
    /\ s.store.size < s.config.MaxStoreBytes
    /\ last.op = "Append" /\ Len(log) = 3 /\ IsMaxed(s)

\* C6: Remove.  After a successful Remove neither file exists, and the
\* segment newSegment then makes is empty and not maxed.
C6_Remove ==
    /\ status = "removed" => ~exists.store /\ ~exists.index
    /\ (born.from = "removed" /\ last.op = "newSegment") =>
          /\ status = "open"
          /\ s.nextOffset = s.baseOffset
          /\ s.index.size = 0
          /\ s.store.size = 0
          /\ ~IsMaxed(s)

\* C6 witness: a segment made after the Remove of one that held records.
C6_Witness ==
    /\ born.from = "removed" /\ last.op = "newSegment"
    /\ Len(born.prev.log) >= 2

\* C7: store.Append arithmetic.  A successful store.Append returns
\* lenWidth + len(data) and the size before the call, and advances size by
\* what it returns; the frames of one store object lie end to end from the
\* size it started with, and size is where the last one ends.
C7_StoreAppend ==
    /\ (last.op = "Append" /\ ~last.stored.err) =>
          /\ last.stored.n = lenWidth + Len(last.data)
          /\ last.stored.pos = last.before.store.size
          /\ s.store.size = last.before.store.size + last.stored.n
    /\ \A i \in 1..Len(frames) :
          frames[i].pos = IF i = 1 THEN born.size0
                          ELSE frames[i - 1].pos + frames[i - 1].n
    /\ s.store.size = born.size0 + FramesBytes(frames)

\* C7 witness: a third frame has been appended to one store.
C7_Witness ==
    last.op = "Append" /\ ~last.stored.err /\ Len(frames) = 3

\* C8: read-your-writes.  store.Read at the position of any frame this
\* store object has appended returns that frame's data, flushed before or
\* not; it fails only with the writer's error, when a flush has failed.
C8_ReadYourWrites ==
    status = "open" =>
        \A i \in 1..Len(frames), io \in {NoFault, 0} :
            LET r == StoreRead(WithIO(s.store, io), frames[i].pos)
            IN  \/ r.kind = "ok" /\ r.data = frames[i].data
                \/ r.kind = "ioerr" /\ r.store.w.err

\* C8 witness: a store.Read has returned a frame that was still buffered.
C8_Witness ==
    last.op = "StoreRead" /\ last.kind = "ok" /\ last.buffered

\* C9: Close durability.  After a successful Close the buffer is empty, the
\* file has grown by the bytes that were buffered, its length is size and
\* it holds every frame appended; the store newSegment then makes starts at
\* that size and reads every frame of the closed store at its position.
C9_CloseDurable ==
    /\ (last.op = "Close" /\ ~last.err) =>
          /\ s.store.w.buf = <<>>
          /\ Len(s.store.w.file) = s.store.size
          /\ Len(s.store.w.file) = Len(last.before.store.w.file)
                                      + Len(last.before.store.w.buf)
          /\ \A i \in 1..Len(frames) :
                /\ FileReadAtOK(s.store.w.file, frames[i].n, frames[i].pos)
                /\ FileReadAt(s.store.w.file, frames[i].n, frames[i].pos)
                      = Frame(frames[i].data)
    /\ (born.from = "closed" /\ last.op = "newSegment") =>
          /\ s.store.size = born.prev.size
          /\ \A i \in 1..Len(born.prev.frames) :
                LET r == StoreRead(s.store, born.prev.frames[i].pos)
                IN  r.kind = "ok" /\ r.data = born.prev.frames[i].data

\* C9 witness: a segment made after the Close of a store to which two
\* frames had been appended.
C9_Witness ==
    /\ born.from = "closed" /\ last.op = "newSegment" /\ status = "open"
    /\ Len(born.prev.frames) >= 2
    /\ s.store.size > 0

\* C10: Append fails when a write fails.  An Append whose store.Append
\* returned an error returns an error, writes no index entry and leaves
\* nextOffset as it was.
C10_AppendFailsOnStoreError ==
    (last.op = "Append" /\ last.stored.err) =>
        /\ last.err
        /\ s.index = last.before.index
        /\ s.nextOffset = last.before.nextOffset

\* C11: Close attempts both.  When index.Close fails inside segment.Close,
\* segment.Close returns an error and has nevertheless closed the store:
\* the bytes that were buffered are in the store file and the buffer is
\* empty.
C11_CloseAttemptsBoth ==
    (last.op = "Close" /\ last.indexErr) =>
        /\ last.err
        /\ last.storeClosed
        /\ s.store.w.buf = <<>>
        /\ Len(s.store.w.file) = Len(last.before.store.w.file)
                                    + Len(last.before.store.w.buf)

\* C13: index.Read returns what index.Write stored.  On a segment made
\* over an empty directory, with no failed system call, the i-th entry
\* written reads back at entry index i-1 as (i-1, position of the i-th
\* frame), the last one reads back at -1, and every entry index at or
\* beyond the number written is EOF.
C13_IndexReadBack ==
    (status = "open" /\ Fresh /\ nFaults = 0) =>
        /\ \A i \in 0..(written - 1) :
              IndexRead(s.index, U64(i))
                 = [kind |-> "ok", off |-> i, pos |-> frames[i + 1].pos]
        /\ written >= 1 =>
              IndexRead(s.index, MinusOne64)
                 = [kind |-> "ok", off |-> written - 1,
                    pos |-> frames[written].pos]
        /\ \A i \in written..MaxAppends :
              IndexRead(s.index, U64(i)).kind = "eof"

\* C14: index.Write capacity and append-only effect.  The index.Write of
\* an Append fails exactly when size + entryWidth exceeds the mapped
\* capacity MaxIndexBytes, and then leaves the index as it was; otherwise
\* it puts the entry in the bytes [size, size + entryWidth), leaves every
\* other byte as it was and advances size by entryWidth.  So size is
\* always a multiple of entryWidth and at most the capacity.
C14_IndexWrite ==
    /\ last.op = "Append" =>
          LET b == last.before.index
              rel == last.before.nextOffset - last.before.baseOffset
          IN  /\ Len(b.mmap) = last.before.config.MaxIndexBytes
              /\ last.err <=> b.size + entryWidth > Len(b.mmap)
              /\ last.err => s.index = b
              /\ ~last.err =>
                    /\ s.index.size = b.size + entryWidth
                    /\ Len(s.index.mmap) = Len(b.mmap)
                    /\ \A i \in 1..Len(b.mmap) :
                          (i <= b.size \/ i > b.size + entryWidth)
                             => s.index.mmap[i] = b.mmap[i]
                    /\ SubSeq(s.index.mmap, b.size + 1, b.size + entryWidth)
                          = BigEndian(rel, offWidth)
                               \o BigEndian(last.stored.pos, posWidth)
    /\ s.index.size % entryWidth = 0
    /\ s.index.size <= s.config.MaxIndexBytes

\* The effect of index.Close on the index in the current state when its
\* step number failedAt fails (0: none fails), as C15 describes it.
CloseAsOrdered(failedAt) ==
    LET io == IF failedAt = 0 THEN NoFault ELSE failedAt - 1
        r == IndexClose(s.index, io)
    IN  /\ r.err <=> failedAt # 0
        /\ r.steps = IF failedAt = 0 THEN 4 ELSE failedAt
        /\ r.index.size = s.index.size
        /\ IF failedAt \in {0, 4}
           THEN /\ Len(r.index.mmap) = s.index.size
                /\ \A i \in 1..s.index.size :
                      r.index.mmap[i] = s.index.mmap[i]
           ELSE r.index.mmap = s.index.mmap

StoreBytes(st) == st.w.file \o st.w.buf

RECURSIVE FramesIn(_, _)
\* The whole frames in bs from position pos on: [pos, data] of each.
FramesIn(bs, pos) ==
    IF pos + lenWidth > Len(bs) THEN <<>>
    ELSE LET n == FromBigEndian(SubSeq(bs, pos + 1, pos + lenWidth))
         IN  IF pos + lenWidth + n > Len(bs) THEN <<>>
             ELSE <<[pos |-> pos,
                     data |-> SubSeq(bs, pos + lenWidth + 1,
                                     pos + lenWidth + n)]>>
                  \o FramesIn(bs, pos + lenWidth + n)

\* The index entry number i (from 0) as its bytes hold it.
EntryAt(idx, i) ==
    [off |-> FromBigEndian(SubSeq(idx.mmap, i * entryWidth + 1,
                                  i * entryWidth + offWidth)),
     pos |-> FromBigEndian(SubSeq(idx.mmap, i * entryWidth + offWidth + 1,
                                  (i + 1) * entryWidth))]

\* C16: segment invariant.  While the segment is open or closed,
\* nextOffset >= baseOffset, and every frame in the store holds a record
\* whose offset is in [baseOffset, nextOffset) and has an index entry, at
\* the record's offset less baseOffset, that holds this relative offset
\* and the frame's position.
C16_SegmentInvariant ==
    status \in {"open", "closed"} =>
        /\ s.nextOffset >= s.baseOffset
        /\ LET fs == FramesIn(StoreBytes(s.store), 0)
           IN  \A k \in 1..Len(fs) :
                   LET u == Unmarshal(fs[k].data)
                       rel == u.record.Offset - s.baseOffset
                   IN  /\ u.ok
                       /\ u.record.Offset >= s.baseOffset
                       /\ u.record.Offset < s.nextOffset
                       /\ (rel + 1) * entryWidth <= s.index.size
                       /\ EntryAt(s.index, rel)
                             = [off |-> rel, pos |-> fs[k].pos]

\* C17: no rollback on a failed index write.  An Append whose store.Append
\* succeeded and whose index.Write failed returns an error and leaves
\* nextOffset and the index as they were, while the store keeps the frame:
\* its size is advanced by the frame and its bytes end with it; the record
\* in that frame carries the offset the next Append will assign.
C17_NoRollback ==
    (last.op = "Append" /\ ~last.stored.err /\ last.err) =>
        /\ s.nextOffset = last.before.nextOffset
        /\ s.index = last.before.index
        /\ s.store.size = last.before.store.size + lenWidth + Len(last.data)
        /\ StoreBytes(s.store)
              = StoreBytes(last.before.store) \o Frame(last.data)
        /\ Unmarshal(last.data).record.Offset = s.nextOffset

\* C17 witness: an Append has failed at the index, which is full, after
\* its frame went into the store.
C17_Witness ==
    /\ last.op = "Append" /\ ~last.stored.err /\ last.err
    /\ written >= 1
    /\ s.index.size + entryWidth > Len(s.index.mmap)

\* C18: preallocated zero bytes are never entries.  While the segment is
\* open or closed, index.size is entryWidth times the number of entries
\* written to the index file; index.Read succeeds at no entry index at or
\* beyond that number; and the nextOffset newSegment resumes with is
\* baseOffset when no entry was written, and otherwise one past the offset
\* of the last entry written.
C18_NoZeroEntries ==
    /\ status \in {"open", "closed"} => s.index.size = entryWidth * written
    /\ status = "open" =>
          /\ \A i \in written..MaxAppends :
                IndexRead(s.index, U64(i)).kind # "ok"
          /\ written = 0 => IndexRead(s.index, MinusOne64).kind # "ok"
    /\ (status = "open" /\ last.op = "newSegment") =>
          s.nextOffset = IF written = 0 THEN s.baseOffset
                         ELSE s.baseOffset
                                 + EntryAt(s.index, written - 1).off + 1

\* C19: store size.  While the segment is open or closed, the store's
\* size is the length of its file plus the bytes in its write buffer, also
\* after a store.Append that returned an error.
C19_StoreSize ==
    status \in {"open", "closed"} =>
        s.store.size = Len(s.store.w.file) + Len(s.store.w.buf)

\* C20: IsMaxed guards Append.  An Append made when IsMaxed was false did
\* not fail at the index for want of room.
C20_IsMaxedGuardsAppend ==
    (last.op = "Append" /\ ~IsMaxed(last.before)) =>
        ~(last.err
          /\ last.before.index.size + entryWidth
                > Len(last.before.index.mmap))

\* What the call op(arg) does when nothing else touches the store while it
\* runs: [store, result, closes], for a store st whose file is closed or
\* not.
AtomicCall(op, arg, st, closed) ==
    LET sio == WithIO(st, FileIO(closed))
    IN  IF op = "Append"
        THEN LET r == StoreAppend(sio, arg)
             IN  [store |-> WithIO(r.store, NoFault),
                  result |-> IF r.err THEN IOError
                             ELSE Result("ok", <<>>, r.n, r.pos),
                  closes |-> FALSE]
        ELSE IF op = "Close"
        THEN LET r == StoreClose(sio)
             IN  [store |-> WithIO(r.store, NoFault),
                  result |-> IF r.err THEN IOError
                             ELSE Result("ok", <<>>, 0, 0),
                  closes |-> ~r.err]
        ELSE LET r == IF op = "Read" THEN StoreRead(sio, arg)
                      ELSE StoreReadAt(sio, lenWidth, arg)
             IN  [store |-> WithIO(r.store, NoFault),
                  result |-> IF closed \/ r.kind = "ioerr" THEN IOError
                             ELSE Result(r.kind, r.data, 0, 0),
                  closes |-> FALSE]

RECURSIVE FramesConcat(_)
\* The frames fs laid end to end.
FramesConcat(fs) ==
    IF fs = <<>> THEN <<>> ELSE Frame(fs[1].data) \o FramesConcat(Tail(fs))

\* C12: store linearization.  With several threads in Append, Read, ReadAt
\* and Close on one store, every call returns, and leaves the store, as if
\* it had run alone from the moment it took the mutex; the Appends that
\* succeeded have start positions that differ, each where the one before
\* ends, size is the sum of their frame lengths, no frame is begun while
\* another is unfinished, and when no call is inside the store and no
\* write has failed the store's bytes are those frames end to end; a Read
\* at the start of a frame that succeeds returns that frame's data.
C12_StoreLinearized ==
    /\ \A t \in Threads :
          pc[t].at = "unlock" =>
             LET a == AtomicCall(pc[t].op, pc[t].arg, pc[t].before,
                                 pc[t].wasClosed)
             IN  /\ pc[t].result = a.result
                 /\ s.store = a.store
                 /\ a.closes => status = "closed"
    /\ \A i \in 1..Len(frames) :
          /\ frames[i].pos = IF i = 1 THEN 0
                             ELSE frames[i - 1].pos + frames[i - 1].n
          /\ \A j \in 1..Len(frames) :
                i # j => frames[i].pos # frames[j].pos
    /\ s.store.size = FramesBytes(frames)
    /\ \A t, u \in Threads :
          (t # u /\ pc[t].at = "payload") =>
             pc[u].at \notin {"locked", "payload", "file", "unlock"}
    /\ (mu = 0 /\ ~s.store.w.err) =>
          StoreBytes(s.store) = FramesConcat(frames)
    /\ \A t \in Threads :
          (pc[t].at = "unlock" /\ pc[t].op = "Read"
              /\ pc[t].result.kind = "ok") =>
             \E i \in 1..Len(frames) :
                 /\ frames[i].pos = pc[t].arg
                 /\ frames[i].data = pc[t].result.data

\* C12 witness: an Append is returning its frame, the second of the store,
\* while another thread that called Append before it finished waits for
\* the mutex.
C12_Witness ==
    \E t, u \in Threads :
        /\ t # u
        /\ pc[t].at = "unlock" /\ pc[t].op = "Append"
        /\ pc[t].result.kind = "ok" /\ pc[t].result.pos > 0
        /\ pc[u].at = "lock" /\ pc[u].op = "Append"
        /\ pc[u].before.size < s.store.size

=============================================================================
